---- MODULE Spec2Model ----
(***************************************************************************)
(* A model of the ovh_dns Ansible module (src/ovh_dns.py): one invocation  *)
(* of main() against an OVH DNS zone, call by call, and the same request   *)
(* invoked again afterwards.                                               *)
(*                                                                         *)
(* Strings are sequences of one-character strings, so that lower-casing    *)
(* and Python's regular expressions are computed, not assumed.             *)
(***************************************************************************)
EXTENDS Integers, Sequences, FiniteSets, TLC

(* ------------------------------------------------------------------ *)
(* Bounds of the model and constants of the program                    *)
(* ------------------------------------------------------------------ *)

\* The zone holds at most this many records before the first invocation.
MaxRecs == 2

\* The same request is invoked at most this many times in sequence.
MaxRuns == 2

\* ttl=dict(default=3600, type='int')
DefaultTtl == 3600

\* The default of the weight parameter of ovh_ip_loadbalancing_backend.
DefaultWeight == 8

\* A weight other than the default, for backends and requests.
OtherWeight == 5

\* The load balancer has at most this many tasks pending when the module starts.
MaxTasks == 2

\* waitForNoTask sees at most this many non-empty polls in a row before one
\* of the pending tasks finishes.
MaxPolls == 2

\* A ttl other than the default, for records and requests.
OtherTtl == 60

(* ------------------------------------------------------------------ *)
(* Values                                                              *)
(* ------------------------------------------------------------------ *)

\* Python's None for a string parameter (no string of the model is this one).
None == <<"None">>

\* type=None: no fieldType filter.
NoType == "None"

\* Python truthiness of an optional string: None and '' are false.
Truthy(s) == s # None /\ s # <<>>

\* str.lower() on one character, and on a string.
LowerChar(c) ==
    IF c = "A" THEN "a" ELSE IF c = "X" THEN "x" ELSE IF c = "Y" THEN "y" ELSE c

Lower(s) == [i \in 1..Len(s) |-> LowerChar(s[i])]

(* ------------------------------------------------------------------ *)
(* Python's re, for the patterns the module builds: literals, '.',     *)
(* a postfix '*', '^' and '$'; always compiled with re.IGNORECASE and   *)
(* always applied with match(), which anchors at the start only.       *)
(* ------------------------------------------------------------------ *)

\* re.compile raises ("nothing to repeat", "multiple repeat") on a '*' that
\* follows nothing, an anchor or another '*'.
ReValid(p) ==
    \A i \in 1..Len(p) :
        p[i] = "*" => (i > 1 /\ p[i - 1] \notin {"*", "^", "$"})

\* One pattern character against one subject character, ignoring case.
CharMatch(pc1, c) == pc1 = "." \/ LowerChar(pc1) = LowerChar(c)

\* Does pattern p match a prefix of s, s being the subject from offset
\* `off` on (off = 0: the start of the subject)?
RECURSIVE MatchAt(_, _, _)
MatchAt(p, s, off) ==
    IF p = <<>> THEN TRUE
    ELSE IF Len(p) >= 2 /\ p[2] = "*"
    THEN \E k \in 0..Len(s) :
            /\ \A j \in 1..k : CharMatch(p[1], s[j])
            /\ MatchAt(SubSeq(p, 3, Len(p)), SubSeq(s, k + 1, Len(s)), off + k)
    ELSE IF p[1] = "^" THEN off = 0 /\ MatchAt(Tail(p), s, off)
    ELSE IF p[1] = "$" THEN s = <<>> /\ MatchAt(Tail(p), s, off)
    ELSE /\ s # <<>>
         /\ CharMatch(p[1], s[1])
         /\ MatchAt(Tail(p), Tail(s), off + 1)

\* re.compile(p, re.IGNORECASE).match(s) is not None
ReMatch(p, s) == MatchAt(p, s, 0)

(* ------------------------------------------------------------------ *)
(* State                                                               *)
(* ------------------------------------------------------------------ *)

VARIABLES
    zone,        \* the provider's records of the zone: id -> record
    zone0,       \* the zone as it was when this invocation started
    nextId,      \* the id the provider gives the next record created
    provider,    \* how the provider's subDomain filter compares names
    req,         \* module.params and module.check_mode of the invocation
    pc,          \* where main() is
    records,     \* main's `records`: the snapshot read at the start
    oldrecords,  \* the ids the invocation decided to delete
    todo,        \* the ids of that loop not yet visited
    newId,       \* the id of the record this invocation created, 0 if none
    calls,       \* the provider calls of this invocation, in order
    result,      \* what exit_json / fail_json reported
    run,         \* the number of the invocation
    prev,        \* the result of the invocation before this one
    \* ovh_ip_loadbalancing_backend
    lbReq,              \* module.params of the invocation
    lbBackends,         \* the provider's backends of the load balancer: name -> properties
    lbTasks,            \* the provider's pending tasks of the load balancer
    lbPc,               \* where main() is
    lbNext,             \* where main() goes on when waitForNoTask returns
    backendProperties,  \* main's `backendProperties`
    moduleChanged,      \* main's `moduleChanged`
    lbCalls,            \* the provider calls of this invocation, in order
    lbResult,           \* what exit_json / fail_json reported
    lbRun,              \* the number of the invocation
    lbPrev,             \* the result of the invocation before this one
    \* ovh_reverse
    revReq,             \* module.params and module.check_mode of the invocation
    revManaged,         \* is the ip one the account manages?
    revReverses,        \* the provider's reverses of the ip (at most one)
    revPc,              \* where main() is
    original_reverse,   \* main's `original_reverse`, {} for None
    revCalls,           \* the provider calls of this invocation, in order
    revResult,          \* what exit_json / fail_json reported
    revRun,             \* the number of the invocation
    revPrev             \* the result of the invocation before this one

dnsvars == <<zone, zone0, nextId, provider, req, pc, records, oldrecords, todo, newId,
             calls, result, run, prev>>

lbvars == <<lbReq, lbBackends, lbTasks, lbPc, lbNext, backendProperties, moduleChanged,
            lbCalls, lbResult, lbRun, lbPrev>>

revvars == <<revReq, revManaged, revReverses, revPc, original_reverse, revCalls,
             revResult, revRun, revPrev>>

vars == <<dnsvars, lbvars, revvars>>

\* The provider's zone list (GET /domain/zone).
Domains == {"mydomain.com"}

\* The subDomain filter of GET /domain/zone/{zone}/record is the provider's:
\* exact, ignoring case, or (for an empty subDomain) no filter at all.
ProviderModes == {"exact", "nocase", "emptyall"}

Rec(t, sub, tgt, ttl) == [fieldType |-> t, subDomain |-> sub, target |-> tgt, ttl |-> ttl]

\* The records a zone may hold before the first invocation.
InitRecords ==
    { Rec("A",  <<"a">>, <<"x">>,      DefaultTtl),
      Rec("A",  <<"a">>, <<"x", "y">>, DefaultTtl),
      Rec("A",  <<"a">>, <<"x">>,      OtherTtl),
      Rec("A",  <<"A">>, <<"x">>,      DefaultTtl),
      Rec("A",  <<"*">>, <<"x">>,      DefaultTtl),
      Rec("NS", <<"a">>, <<"x">>,      DefaultTtl) }

InitZones == UNION { [1..k -> InitRecords] : k \in 0..MaxRecs }

Req(st, dom, n, t, v, rm, rp, cr, ttl, chk) ==
    [state |-> st, domain |-> dom, name |-> n, type |-> t, value |-> v,
     removes |-> rm, replace |-> rp, create |-> cr, ttl |-> ttl, check |-> chk]

\* state=absent: name, type, value and removes are read.
AbsentReqs ==
    { Req("absent", "mydomain.com", n, t, v, rm, None, FALSE, DefaultTtl, chk) :
        n \in {<<"a">>, <<>>, <<"*">>}, t \in {NoType, "A"},
        v \in {None, <<"X">>, <<"x", "y">>}, rm \in {None, <<"a">>},
        chk \in BOOLEAN }

\* state=present and state=append: name, type, value, ttl, replace, create.
PresentReqs ==
    { Req(st, "mydomain.com", n, "A", v, None, rp, cr, ttl, chk) :
        st \in {"present", "append"}, n \in {<<"a">>, <<>>},
        v \in {<<"X">>, <<"x", "y">>}, rp \in {None, <<"x", "y">>},
        cr \in BOOLEAN, ttl \in {DefaultTtl, OtherTtl}, chk \in BOOLEAN }

\* Requests that main() refuses: no value, no type, a domain not in the list.
InvalidReqs ==
    { Req(st, "mydomain.com", <<"a">>, "A", None, None, None, FALSE, DefaultTtl, FALSE) :
        st \in {"present", "append"} }
    \cup
    { Req(st, "mydomain.com", <<"a">>, NoType, <<"X">>, None, None, FALSE, DefaultTtl, FALSE) :
        st \in {"present", "append"} }
    \cup
    { Req(st, "other.org", <<"a">>, "A", <<"X">>, None, None, FALSE, DefaultTtl, chk) :
        st \in {"present", "append", "absent"}, chk \in BOOLEAN }

Requests == AbsentReqs \cup PresentReqs \cup InvalidReqs

NoResult == [outcome |-> "none", changed |-> FALSE, msg |-> ""]

\* ovh_ip_loadbalancing_backend is not running.
LbOff ==
    /\ lbReq = [name |-> "", state |-> "present", backend |-> "", weight |-> 0,
                probe |-> "none"]
    /\ lbBackends = <<>>
    /\ lbTasks = 0
    /\ lbPc = "off"
    /\ lbNext = "off"
    /\ backendProperties = <<>>
    /\ moduleChanged = FALSE
    /\ lbCalls = <<>>
    /\ lbResult = NoResult
    /\ lbRun = 1
    /\ lbPrev = NoResult

\* ovh_reverse is not running.
RevOff ==
    /\ revReq = [ip |-> "", reverse |-> None, state |-> "present", check |-> FALSE]
    /\ revManaged = FALSE
    /\ revReverses = {}
    /\ revPc = "off"
    /\ original_reverse = {}
    /\ revCalls = <<>>
    /\ revResult = NoResult
    /\ revRun = 1
    /\ revPrev = NoResult

\* ovh_dns is not running.
DnsOff ==
    /\ zone = <<>>
    /\ zone0 = <<>>
    /\ nextId = 1
    /\ provider = "exact"
    /\ req = Req("absent", "mydomain.com", <<>>, NoType, None, None, None, FALSE,
                 DefaultTtl, TRUE)
    /\ pc = "off"
    /\ records = <<>>
    /\ oldrecords = {}
    /\ todo = {}
    /\ newId = 0
    /\ calls = <<>>
    /\ result = NoResult
    /\ run = 1
    /\ prev = NoResult

\* An invocation of ovh_dns: the task's parameters, a zone, nothing done yet.
Init ==
    /\ LbOff /\ RevOff
    /\ zone \in InitZones
    /\ zone0 = zone
    /\ nextId = Cardinality(DOMAIN zone) + 1
    /\ provider \in ProviderModes
    /\ req \in Requests
    /\ pc = "start"
    /\ records = <<>>
    /\ oldrecords = {}
    /\ todo = {}
    /\ newId = 0
    /\ calls = <<>>
    /\ result = NoResult
    /\ run = 1
    /\ prev = NoResult

(* ------------------------------------------------------------------ *)
(* The provider                                                        *)
(* ------------------------------------------------------------------ *)

Call(op, id, ok) == [op |-> op, id |-> id, ok |-> ok]

\* The provider's subDomain filter.
SubDomainFilter(mode, name, sub) ==
    CASE mode = "exact"    -> sub = name
      [] mode = "nocase"   -> Lower(sub) = Lower(name)
      [] mode = "emptyall" -> name = <<>> \/ sub = name

\* get_domain_records without the fieldType parameter of the query.
get_domain_records_NoTypeFilter(z, mode, fieldtype, subDomain) ==
    LET ids == { id \in DOMAIN z :
                    SubDomainFilter(mode, subDomain, z[id].subDomain) }
    IN  [id \in ids |-> z[id]]

\* get_domain_records: the ids the provider lists for fieldType and subDomain,
\* each with its record.
get_domain_records(z, mode, fieldtype, subDomain) ==
    LET ids == { id \in DOMAIN z :
                    /\ fieldtype = NoType \/ z[id].fieldType = fieldtype
                    /\ SubDomainFilter(mode, subDomain, z[id].subDomain) }
    IN  [id \in ids |-> z[id]]

(* ------------------------------------------------------------------ *)
(* The decisions of main()                                             *)
(* ------------------------------------------------------------------ *)

Exit(outcome, changed, msg) ==
    [next |-> "done", outcome |-> outcome, changed |-> changed, msg |-> msg, ids |-> {}]

\* Change reporting changed=false in check mode.
Change_CheckUnchanged(ids, chk) ==
    IF chk
    THEN [next |-> "done", outcome |-> "ok", changed |-> FALSE, msg |-> "", ids |-> ids]
    ELSE [next |-> "go", outcome |-> "none", changed |-> FALSE, msg |-> "", ids |-> ids]

\* Change with the "if not module.check_mode" guards left out.
Change_IgnoreCheck(ids, chk) ==
    [next |-> "go", outcome |-> "none", changed |-> FALSE, msg |-> "", ids |-> ids]

\* A decision to change the zone, deleting the records ids: in check mode
\* it is reported and nothing is called ("if not module.check_mode");
\* otherwise main() goes on to the calls.
Change(ids, chk) ==
    IF chk
    THEN [next |-> "done", outcome |-> "ok", changed |-> TRUE, msg |-> "", ids |-> ids]
    ELSE [next |-> "go", outcome |-> "none", changed |-> FALSE, msg |-> "", ids |-> ids]

\* rn: removes, or the name between ^ and $.
NameRe(rq) ==
    IF Truthy(rq.removes) THEN rq.removes ELSE <<"^">> \o rq.name \o <<"$">>

\* rv: the value, or .*
ValueRe(rq) ==
    IF Truthy(rq.value) THEN rq.value ELSE <<".", "*">>

\* AbsentSelect comparing the name with ==, not with an IGNORECASE pattern.
AbsentSelect_ExactName(recs, rq) ==
    { id \in DOMAIN recs :
        /\ IF Truthy(rq.removes)
           THEN ReMatch(rq.removes, recs[id].subDomain)
           ELSE recs[id].subDomain = rq.name
        /\ ReMatch(ValueRe(rq), recs[id].target) }

\* The records left in tmprecords: those both patterns match.
AbsentSelect(recs, rq) ==
    { id \in DOMAIN recs :
        /\ ReMatch(NameRe(rq), recs[id].subDomain)
        /\ ReMatch(ValueRe(rq), recs[id].target) }

\* WildcardGuard taking "*", not the empty name, for the wildcard.
WildcardGuard_Star(rq) == rq.name = <<"*">> /\ ~Truthy(rq.removes)

\* The guard against a wildcard delete.
WildcardGuard(rq) == Len(rq.name) = 0 /\ ~Truthy(rq.removes)

\* AbsentDecision without the early exit on an empty read.
AbsentDecision_NoEarlyExit(recs, rq) ==
    IF WildcardGuard(rq)
    THEN Exit("fail", FALSE, "wildcard delete not allowed")
    ELSE IF ~ReValid(NameRe(rq)) \/ ~ReValid(ValueRe(rq))
    THEN Exit("crash", FALSE, "re.error")
    ELSE IF AbsentSelect(recs, rq) = {}
    THEN Exit("ok", FALSE, "")
    ELSE Change(AbsentSelect(recs, rq), rq.check)

\* state == 'absent'
AbsentDecision(recs, rq) ==
    IF WildcardGuard(rq)
    THEN Exit("fail", FALSE, "wildcard delete not allowed")
    ELSE IF DOMAIN recs = {}
    THEN Exit("ok", FALSE, "")
    ELSE IF ~ReValid(NameRe(rq)) \/ ~ReValid(ValueRe(rq))
    THEN Exit("crash", FALSE, "re.error")
    ELSE IF AbsentSelect(recs, rq) = {}
    THEN Exit("ok", FALSE, "")
    ELSE Change(AbsentSelect(recs, rq), rq.check)

\* AlreadyThere comparing the ttl only when it is not the default one.
AlreadyThere_TtlWhenGiven(recs, rq) ==
    \E id \in DOMAIN recs :
        /\ Lower(recs[id].target) = Lower(rq.value)
        /\ rq.ttl # DefaultTtl => recs[id].ttl = rq.ttl

\* Is some record already as requested?
AlreadyThere(recs, rq) ==
    \E id \in DOMAIN recs :
        /\ Lower(recs[id].target) = Lower(rq.value)
        /\ recs[id].ttl = rq.ttl

\* OldRecords taking every record read, whatever replace says.
OldRecords_All(recs, rq) ==
    IF rq.state # "present" THEN {} ELSE DOMAIN recs

\* OldRecords without the test of state == 'present': append replaces too.
OldRecords_AppendToo(recs, rq) ==
    IF Truthy(rq.replace)
    THEN { id \in DOMAIN recs : ReMatch(rq.replace, recs[id].target) }
    ELSE DOMAIN recs

\* OldRecords keeping, when no replace is given, the records that already
\* have the desired target.
OldRecords_OnlyOtherTargets(recs, rq) ==
    IF rq.state # "present" THEN {}
    ELSE IF Truthy(rq.replace)
    THEN { id \in DOMAIN recs : ReMatch(rq.replace, recs[id].target) }
    ELSE { id \in DOMAIN recs : Lower(recs[id].target) # Lower(rq.value) }

\* oldrecords: for present, the records replace matches, or all of them
\* when no replace is given; for append, none.
OldRecords(recs, rq) ==
    IF rq.state # "present" THEN {}
    ELSE IF Truthy(rq.replace)
    THEN { id \in DOMAIN recs : ReMatch(rq.replace, recs[id].target) }
    ELSE DOMAIN recs

\* AddDecision without "or not records".
AddDecision_AppendOnly(recs, rq) ==
    IF rq.state = "append"
    THEN Change({}, rq.check)
    ELSE Exit("ok", FALSE, "")

\* Add record: only for append, or when nothing was read.
AddDecision(recs, rq) ==
    IF rq.state = "append" \/ DOMAIN recs = {}
    THEN Change({}, rq.check)
    ELSE Exit("ok", FALSE, "")

\* state in ['present', 'append']
PresentDecision(recs, rq) ==
    IF rq.value = None
    THEN Exit("fail", FALSE, "Did not specify a value")
    ELSE IF rq.type = NoType
    THEN Exit("fail", FALSE, "Did not specify a type")
    ELSE IF DOMAIN recs = {}
    THEN AddDecision(recs, rq)
    ELSE IF AlreadyThere(recs, rq)
    THEN Exit("ok", FALSE, "")
    ELSE IF rq.state = "present" /\ Truthy(rq.replace) /\ ~ReValid(rq.replace)
    THEN Exit("crash", FALSE, "re.error")
    ELSE IF rq.state = "present" /\ Truthy(rq.replace)
            /\ OldRecords(recs, rq) = {} /\ ~rq.create
    THEN Exit("fail", FALSE, "Old record not match, use append ?")
    ELSE IF OldRecords(recs, rq) # {}
    THEN Change(OldRecords(recs, rq), rq.check)
    ELSE AddDecision(recs, rq)

Decision(recs, rq) ==
    IF rq.state = "absent" THEN AbsentDecision(recs, rq) ELSE PresentDecision(recs, rq)

\* newrecord without the requested ttl.
NewRecord_DefaultTtl(rq) == Rec(rq.type, rq.name, rq.value, DefaultTtl)

\* newrecord
NewRecord(rq) == Rec(rq.type, rq.name, rq.value, rq.ttl)

\* NextStep posting the new record before the delete loop.
NextStep_CreateFirst(rq, td, created) ==
    IF rq.state # "absent" /\ ~created THEN "create"
    ELSE IF td # {} THEN "delete"
    ELSE "refresh"

\* NextStep without the refresh that follows the delete loop of absent.
NextStep_NoRefreshAfterDeletes(rq, td, created) ==
    IF td # {} THEN "delete"
    ELSE IF rq.state # "absent" /\ ~created THEN "create"
    ELSE IF rq.state = "absent" THEN "done"
    ELSE "refresh"

\* The order of the mutating calls: the delete loop first, then (present and
\* append) the create, then the refresh. td: the ids still to delete; created:
\* the new record has been posted.
NextStep(rq, td, created) ==
    IF td # {} THEN "delete"
    ELSE IF rq.state # "absent" /\ ~created THEN "create"
    ELSE "refresh"

(* ------------------------------------------------------------------ *)
(* The steps of main()                                                 *)
(* ------------------------------------------------------------------ *)

Finish(outcome, changed, msg) ==
    /\ pc' = "done"
    /\ result' = [outcome |-> outcome, changed |-> changed, msg |-> msg]

\* CheckDomain without the exit on an unknown domain.
CheckDomain_NoExit ==
    /\ pc = "start"
    /\ calls' = Append(calls, Call("zones", 0, TRUE))
    /\ pc' = "fetch"
    /\ UNCHANGED <<zone, zone0, nextId, provider, req, records, oldrecords, todo, newId, result, run, prev>>
    /\ UNCHANGED <<lbvars, revvars>>

\* client.get('/domain/zone'); fail_json when the domain is not listed.
CheckDomain ==
    /\ pc = "start"
    /\ calls' = Append(calls, Call("zones", 0, TRUE))
    /\ IF req.domain \notin Domains
       THEN Finish("fail", FALSE, "Domain does not exist")
       ELSE pc' = "fetch" /\ UNCHANGED result
    /\ UNCHANGED <<zone, zone0, nextId, provider, req, records, oldrecords, todo, newId, run, prev>>
    /\ UNCHANGED <<lbvars, revvars>>

\* records = get_domain_records(client, domain, fieldtype, name)
Fetch ==
    /\ pc = "fetch"
    /\ records' = get_domain_records(zone, provider, req.type, req.name)
    /\ calls' = Append(calls, Call("list", 0, TRUE))
    /\ pc' = "decide"
    /\ UNCHANGED <<zone, zone0, nextId, provider, req, oldrecords, todo, newId, result, run, prev>>
    /\ UNCHANGED <<lbvars, revvars>>

\* Everything main() does between the read and its first mutating call.
Decide ==
    /\ pc = "decide"
    /\ LET d == Decision(records, req) IN
        /\ oldrecords' = d.ids
        /\ todo' = IF d.next = "go" THEN d.ids ELSE {}
        /\ IF d.next = "done"
           THEN Finish(d.outcome, d.changed, d.msg)
           ELSE pc' = NextStep(req, d.ids, FALSE) /\ UNCHANGED result
    /\ UNCHANGED <<zone, zone0, nextId, provider, req, records, newId, calls, run, prev>>
    /\ UNCHANGED <<lbvars, revvars>>

\* client.delete('/domain/zone/{}/record/{}') for the next id of the loop; the
\* loop runs over a dict, in no order the program fixes.
DeleteRecord ==
    /\ pc = "delete"
    /\ \E id \in todo :
        /\ calls' = Append(calls, Call("delete", id, TRUE))
        /\ zone' = [i \in DOMAIN zone \ {id} |-> zone[i]]
        /\ todo' = todo \ {id}
        /\ pc' = NextStep(req, todo', newId # 0)
    /\ UNCHANGED <<zone0, nextId, provider, req, records, oldrecords, newId, result, run, prev>>
    /\ UNCHANGED <<lbvars, revvars>>

\* client.post('/domain/zone/{}/record', **newrecord)
CreateRecord ==
    /\ pc = "create"
    /\ calls' = Append(calls, Call("create", nextId, TRUE))
    /\ zone' = zone @@ (nextId :> NewRecord(req))
    /\ newId' = nextId
    /\ nextId' = nextId + 1
    /\ pc' = NextStep(req, todo, TRUE)
    /\ UNCHANGED <<zone0, provider, req, records, oldrecords, todo, result, run, prev>>
    /\ UNCHANGED <<lbvars, revvars>>

\* client.post('/domain/zone/{}/refresh'), then exit_json with changed=True.
RefreshZone ==
    /\ pc = "refresh"
    /\ calls' = Append(calls, Call("refresh", 0, TRUE))
    /\ Finish("ok", TRUE, "")
    /\ UNCHANGED <<zone, zone0, nextId, provider, req, records, oldrecords, todo, newId, run, prev>>
    /\ UNCHANGED <<lbvars, revvars>>

\* A mutating call raises (the provider refuses it, the transport fails): the
\* exception is caught nowhere and ends the module.
ProviderError ==
    /\ pc \in {"delete", "create", "refresh"}
    /\ calls' = Append(calls, Call(pc, 0, FALSE))
    /\ Finish("crash", FALSE, "ProviderError")
    /\ UNCHANGED <<zone, zone0, nextId, provider, req, records, oldrecords, todo, newId, run, prev>>
    /\ UNCHANGED <<lbvars, revvars>>

\* The same task is run again after a run that succeeded.
Rerun ==
    /\ pc = "done"
    /\ result.outcome = "ok"
    /\ run < MaxRuns
    /\ run' = run + 1
    /\ prev' = result
    /\ pc' = "start"
    /\ records' = <<>>
    /\ oldrecords' = {}
    /\ todo' = {}
    /\ newId' = 0
    /\ calls' = <<>>
    /\ result' = NoResult
    /\ zone0' = zone
    /\ UNCHANGED <<zone, nextId, provider, req>>
    /\ UNCHANGED <<lbvars, revvars>>

\* The module against a provider that carries out every call.
Next ==
    \/ CheckDomain
    \/ Fetch
    \/ Decide
    \/ DeleteRecord
    \/ CreateRecord
    \/ RefreshZone
    \/ Rerun

Spec == Init /\ [][Next]_vars

\* The module against a provider whose mutating calls may fail.
NextErr == Next \/ ProviderError

SpecErr == Init /\ [][NextErr]_vars

(* ------------------------------------------------------------------ *)
(* ovh_ip_loadbalancing_backend                                        *)
(* ------------------------------------------------------------------ *)

\* The provider's load balancers (GET /ip/loadBalancing).
LoadBalancers == {"ip-1.1.1.1"}

Probes == {"none", "http"}

Weights == {DefaultWeight, OtherWeight}

Props(w, p) == [weight |-> w, probe |-> p]

\* The backends the load balancer may hold when the module starts: the
\* requested one or not, with any properties, and another one or not.
InitBackends ==
    { [b \in S |-> IF b = "212.1.1.1" THEN pr ELSE Props(DefaultWeight, "none")] :
        S \in SUBSET {"212.1.1.1", "212.1.1.2"},
        pr \in { Props(w, p) : w \in Weights, p \in Probes } }

LbRequests ==
    [name : {"ip-1.1.1.1", "ip-9.9.9.9"}, state : {"present", "absent"},
     backend : {"212.1.1.1"}, weight : Weights, probe : Probes]

\* An invocation of ovh_ip_loadbalancing_backend.
InitLB ==
    /\ DnsOff /\ RevOff
    /\ lbReq \in LbRequests
    /\ lbBackends \in InitBackends
    /\ lbTasks \in 0..MaxTasks
    /\ lbPc = "start"
    /\ lbNext = "start"
    /\ backendProperties = Props(0, "none")
    /\ moduleChanged = FALSE
    /\ lbCalls = <<>>
    /\ lbResult = NoResult
    /\ lbRun = 1
    /\ lbPrev = NoResult

\* A provider call; for a poll of the tasks, n is the length of the list
\* the provider returned.
LbCall(op, n) == [op |-> op, n |-> n]

\* The non-empty polls at the end of the calls: the polls waitForNoTask has
\* slept after so far.
RECURSIVE BusyPolls(_)
BusyPolls(cs) ==
    IF cs = <<>> THEN 0
    ELSE IF cs[Len(cs)].op = "poll" /\ cs[Len(cs)].n > 0
    THEN 1 + BusyPolls(SubSeq(cs, 1, Len(cs) - 1))
    ELSE 0

\* module.exit_json / module.fail_json
LbFinish(outcome, changed, msg) ==
    /\ lbPc' = "done"
    /\ lbResult' = [outcome |-> outcome, changed |-> changed, msg |-> msg]

\* main() goes on at `next`; "exit" is module.exit_json(changed=moduleChanged).
LbGoto(next, changed) ==
    IF next = "exit"
    THEN LbFinish("ok", changed, "")
    ELSE lbPc' = next /\ UNCHANGED lbResult

\* loadBalancers = client.get('/ip/loadBalancing'); fail_json when the name
\* is not listed; else the first waitForNoTask.
LbCheck ==
    /\ lbPc = "start"
    /\ lbCalls' = Append(lbCalls, LbCall("loadBalancers", 0))
    /\ IF lbReq.name \notin LoadBalancers
       THEN LbFinish("fail", FALSE, "Load Balancer does not exist") /\ UNCHANGED lbNext
       ELSE lbPc' = "wait" /\ lbNext' = "backends" /\ UNCHANGED lbResult
    /\ UNCHANGED <<lbReq, lbBackends, lbTasks, backendProperties, moduleChanged, lbRun, lbPrev>>
    /\ UNCHANGED <<dnsvars, revvars>>

\* waitForNoTask returning after its first poll, whatever the poll reported.
LbPoll_IfNotWhile ==
    /\ lbPc = "wait"
    /\ lbCalls' = Append(lbCalls, LbCall("poll", lbTasks))
    /\ LbGoto(lbNext, moduleChanged)
    /\ UNCHANGED <<lbReq, lbBackends, lbTasks, lbNext, backendProperties, moduleChanged, lbRun, lbPrev>>
    /\ UNCHANGED <<dnsvars, revvars>>

\* waitForNoTask, one turn of its loop: client.get('/ip/loadBalancing/<name>/task');
\* a non-empty list: sleep and poll again; an empty list: return to main().
LbPoll ==
    /\ lbPc = "wait"
    /\ lbTasks = 0 \/ BusyPolls(lbCalls) < MaxPolls
    /\ lbCalls' = Append(lbCalls, LbCall("poll", lbTasks))
    /\ IF lbTasks > 0
       THEN UNCHANGED <<lbPc, lbResult>>
       ELSE LbGoto(lbNext, moduleChanged)
    /\ UNCHANGED <<lbReq, lbBackends, lbTasks, lbNext, backendProperties, moduleChanged, lbRun, lbPrev>>
    /\ UNCHANGED <<dnsvars, revvars>>

\* The provider finishes one of the pending tasks.
TaskDone ==
    /\ lbPc # "off"
    /\ lbTasks > 0
    /\ lbTasks' = lbTasks - 1
    /\ UNCHANGED <<lbReq, lbBackends, lbPc, lbNext, backendProperties, moduleChanged, lbCalls,
                   lbResult, lbRun, lbPrev>>
    /\ UNCHANGED <<dnsvars, revvars>>

\* Where main() goes once it knows whether the backend exists.
LbBranch(state, backendExists) ==
    IF state = "absent"
    THEN IF backendExists THEN "delete" ELSE "exit"
    ELSE IF backendExists THEN "properties" ELSE "create"

\* backends = client.get('/ip/loadBalancing/<name>/backend');
\* backendExists = backend in backends
LbBackends ==
    /\ lbPc = "backends"
    /\ lbCalls' = Append(lbCalls, LbCall("backends", 0))
    /\ moduleChanged' = FALSE
    /\ LbGoto(LbBranch(lbReq.state, lbReq.backend \in DOMAIN lbBackends), FALSE)
    /\ UNCHANGED <<lbReq, lbBackends, lbTasks, lbNext, backendProperties, lbRun, lbPrev>>
    /\ UNCHANGED <<dnsvars, revvars>>

\* client.delete('/ip/loadBalancing/<name>/backend/<backend>'); waitForNoTask
LbDelete ==
    /\ lbPc = "delete"
    /\ lbCalls' = Append(lbCalls, LbCall("delete", 0))
    /\ lbBackends' = [b \in DOMAIN lbBackends \ {lbReq.backend} |-> lbBackends[b]]
    /\ lbTasks' = lbTasks + 1
    /\ moduleChanged' = TRUE
    /\ lbPc' = "wait" /\ lbNext' = "exit"
    /\ UNCHANGED <<lbReq, backendProperties, lbResult, lbRun, lbPrev>>
    /\ UNCHANGED <<dnsvars, revvars>>

\* Where main() goes after the weight: the probe, or the exit.
AfterWeight(props, rq) == IF props.probe # rq.probe THEN "setProbe" ELSE "exit"

\* LbProperties comparing the weight with the parameter as given, a string,
\* which no weight the provider reports equals.
LbProperties_WeightAsString ==
    /\ lbPc = "properties"
    /\ lbCalls' = Append(lbCalls, LbCall("properties", 0))
    /\ backendProperties' = lbBackends[lbReq.backend]
    /\ lbPc' = "setWeight"
    /\ UNCHANGED <<lbReq, lbBackends, lbTasks, lbNext, moduleChanged, lbResult, lbRun, lbPrev>>
    /\ UNCHANGED <<dnsvars, revvars>>

\* backendProperties = client.get('/ip/loadBalancing/<name>/backend/<backend>')
LbProperties ==
    /\ lbPc = "properties"
    /\ lbCalls' = Append(lbCalls, LbCall("properties", 0))
    /\ backendProperties' = lbBackends[lbReq.backend]
    /\ IF backendProperties'.weight # lbReq.weight
       THEN lbPc' = "setWeight" /\ UNCHANGED lbResult
       ELSE LbGoto(AfterWeight(backendProperties', lbReq), moduleChanged)
    /\ UNCHANGED <<lbReq, lbBackends, lbTasks, lbNext, moduleChanged, lbRun, lbPrev>>
    /\ UNCHANGED <<dnsvars, revvars>>

\* LbSetWeight going on to the probe without waitForNoTask.
LbSetWeight_NoWait ==
    /\ lbPc = "setWeight"
    /\ lbCalls' = Append(lbCalls, LbCall("setWeight", 0))
    /\ lbBackends' = [lbBackends EXCEPT ![lbReq.backend].weight = lbReq.weight]
    /\ lbTasks' = lbTasks + 1
    /\ moduleChanged' = TRUE
    /\ LbGoto(AfterWeight(backendProperties, lbReq), TRUE)
    /\ UNCHANGED <<lbReq, lbNext, backendProperties, lbRun, lbPrev>>
    /\ UNCHANGED <<dnsvars, revvars>>

\* client.post('/ip/loadBalancing/<name>/backend/<backend>/setWeight'); waitForNoTask
LbSetWeight ==
    /\ lbPc = "setWeight"
    /\ lbCalls' = Append(lbCalls, LbCall("setWeight", 0))
    /\ lbBackends' = [lbBackends EXCEPT ![lbReq.backend].weight = lbReq.weight]
    /\ lbTasks' = lbTasks + 1
    /\ moduleChanged' = TRUE
    /\ lbPc' = "wait" /\ lbNext' = AfterWeight(backendProperties, lbReq)
    /\ UNCHANGED <<lbReq, backendProperties, lbResult, lbRun, lbPrev>>
    /\ UNCHANGED <<dnsvars, revvars>>

\* client.put('/ip/loadBalancing/<name>/backend/<backend>', probe=probe); waitForNoTask
LbSetProbe ==
    /\ lbPc = "setProbe"
    /\ lbCalls' = Append(lbCalls, LbCall("setProbe", 0))
    /\ backendProperties' = [backendProperties EXCEPT !.probe = lbReq.probe]
    /\ lbBackends' = [lbBackends EXCEPT ![lbReq.backend].probe = lbReq.probe]
    /\ lbTasks' = lbTasks + 1
    /\ moduleChanged' = TRUE
    /\ lbPc' = "wait" /\ lbNext' = "exit"
    /\ UNCHANGED <<lbReq, lbResult, lbRun, lbPrev>>
    /\ UNCHANGED <<dnsvars, revvars>>

\* client.post('/ip/loadBalancing/<name>/backend', ipBackend, probe, weight); waitForNoTask
LbCreate ==
    /\ lbPc = "create"
    /\ lbCalls' = Append(lbCalls, LbCall("create", 0))
    /\ lbBackends' = [b \in DOMAIN lbBackends \cup {lbReq.backend} |->
                        IF b = lbReq.backend THEN Props(lbReq.weight, lbReq.probe)
                        ELSE lbBackends[b]]
    /\ lbTasks' = lbTasks + 1
    /\ moduleChanged' = TRUE
    /\ lbPc' = "wait" /\ lbNext' = "exit"
    /\ UNCHANGED <<lbReq, backendProperties, lbResult, lbRun, lbPrev>>
    /\ UNCHANGED <<dnsvars, revvars>>

\* The same task is invoked again.
LbRerun ==
    /\ lbPc = "done"
    /\ lbResult.outcome = "ok"
    /\ lbRun < MaxRuns
    /\ lbRun' = lbRun + 1
    /\ lbPrev' = lbResult
    /\ lbPc' = "start"
    /\ lbNext' = "start"
    /\ backendProperties' = Props(0, "none")
    /\ moduleChanged' = FALSE
    /\ lbCalls' = <<>>
    /\ lbResult' = NoResult
    /\ UNCHANGED <<lbReq, lbBackends, lbTasks>>
    /\ UNCHANGED <<dnsvars, revvars>>

\* The module against a provider that carries out every call.
NextLB ==
    \/ LbCheck
    \/ LbPoll
    \/ TaskDone
    \/ LbBackends
    \/ LbDelete
    \/ LbProperties
    \/ LbSetWeight
    \/ LbSetProbe
    \/ LbCreate
    \/ LbRerun

SpecLB == InitLB /\ [][NextLB]_vars

\* LbPollError with the error swallowed: waitForNoTask polls again.
LbPollError_Retry ==
    /\ lbPc = "wait"
    /\ Len(lbCalls) < 2 * MaxPolls + 8
    /\ lbCalls' = Append(lbCalls, LbCall("pollError", 0))
    /\ UNCHANGED <<lbReq, lbBackends, lbTasks, lbPc, lbNext, backendProperties, moduleChanged,
                   lbResult, lbRun, lbPrev>>
    /\ UNCHANGED <<dnsvars, revvars>>

\* waitForNoTask: client.get('/ip/loadBalancing/<name>/task') raises; neither
\* waitForNoTask nor main() catches the exception, which ends the module.
LbPollError ==
    /\ lbPc = "wait"
    /\ lbCalls' = Append(lbCalls, LbCall("pollError", 0))
    /\ LbFinish("crash", FALSE, "ProviderError")
    /\ UNCHANGED <<lbReq, lbBackends, lbTasks, lbNext, backendProperties, moduleChanged,
                   lbRun, lbPrev>>
    /\ UNCHANGED <<dnsvars, revvars>>

\* The module against a provider whose task list may fail to be read.
NextLBErr == NextLB \/ LbPollError

SpecLBErr == InitLB /\ [][NextLBErr]_vars

(* ------------------------------------------------------------------ *)
(* ovh_reverse                                                         *)
(* ------------------------------------------------------------------ *)

\* The reverse names of the provider and of the requests.
ReverseNames == { <<"a">>, <<"b">> }

\* reverse is optional: None when not given; it may be given empty.
RevRequests ==
    [ip : {"1.1.1.1"}, reverse : {None, <<>>} \cup ReverseNames,
     state : {"present", "absent"}, check : BOOLEAN]

\* An invocation of ovh_reverse, nothing done yet: the ip has one reverse or
\* none.
RevStart ==
    /\ DnsOff /\ LbOff
    /\ revReq \in RevRequests
    /\ revReverses \in { {} } \cup { {r} : r \in ReverseNames }
    /\ revPc = "list"
    /\ original_reverse = {}
    /\ revCalls = <<>>
    /\ revResult = NoResult
    /\ revRun = 1
    /\ revPrev = NoResult

\* The ip is one the account manages.
InitRev == RevStart /\ revManaged = TRUE

\* The ip is one the account manages, or not: then it shows no reverse.
InitRevErr ==
    /\ RevStart
    /\ revManaged \in BOOLEAN
    /\ ~revManaged => revReverses = {}

\* module.exit_json / module.fail_json
RevFinish(outcome, changed, msg) ==
    /\ revPc' = "done"
    /\ revResult' = [outcome |-> outcome, changed |-> changed, msg |-> msg]

RevExit(outcome, changed, msg) ==
    [next |-> "done", outcome |-> outcome, changed |-> changed, msg |-> msg]

RevGo(next) ==
    [next |-> next, outcome |-> "none", changed |-> FALSE, msg |-> ""]

\* update_reverse, up to its provider call.
update_reverse(check_mode, orig, reverse) ==
    IF orig = {} \/ orig # {reverse}
    THEN IF ~check_mode
         THEN RevGo("post")
         ELSE RevExit("ok", TRUE, "needs to be updated")
    ELSE RevExit("ok", FALSE, "already set")

\* RevDecision without results['failed'] = True.
RevDecision_NoFailure(orig, rq) ==
    IF rq.state = "present"
    THEN IF Truthy(rq.reverse)
         THEN update_reverse(rq.check, orig, rq.reverse)
         ELSE RevExit("ok", FALSE, "is set")
    ELSE IF orig = {}
    THEN RevExit("ok", FALSE, "is absent")
    ELSE IF ~rq.check
    THEN RevGo("delete")
    ELSE RevExit("ok", TRUE, "needs to be deleted")

\* main(), from original_reverse to its first mutating call or its exit.
RevDecision(orig, rq) ==
    IF rq.state = "present"
    THEN IF Truthy(rq.reverse)
         THEN update_reverse(rq.check, orig, rq.reverse)
         ELSE IF orig = {}
         THEN RevExit("fail", FALSE, "No IP reverse and not reverse provided")
         ELSE RevExit("ok", FALSE, "is set")
    ELSE IF orig = {}
    THEN RevExit("ok", FALSE, "is absent")
    ELSE IF ~rq.check
    THEN RevGo("delete")
    ELSE RevExit("ok", TRUE, "needs to be deleted")

RevDecide(orig) ==
    LET d == RevDecision(orig, revReq) IN
        IF d.next = "done"
        THEN RevFinish(d.outcome, d.changed, d.msg)
        ELSE revPc' = d.next /\ UNCHANGED revResult

\* get_reverse, first call: ip_reverses = client.get('/ip/<ip>%2F32/reverse');
\* an ip that is not manageable raises, and main() fails; an empty list is
\* None, and main() decides.
RevList ==
    /\ revPc = "list"
    /\ revCalls' = Append(revCalls, "list")
    /\ IF ~revManaged
       THEN RevFinish("fail", FALSE, "does not seem to be manageable")
       ELSE IF revReverses = {}
       THEN RevDecide({})
       ELSE revPc' = "item" /\ UNCHANGED revResult
    /\ UNCHANGED <<revReq, revManaged, revReverses, original_reverse, revRun, revPrev>>
    /\ UNCHANGED <<dnsvars, lbvars>>

\* get_reverse, second call: client.get('/ip/<ip>%2F32/reverse/<first>');
\* main() decides.
RevItem ==
    /\ revPc = "item"
    /\ revCalls' = Append(revCalls, "item")
    /\ original_reverse' = revReverses
    /\ RevDecide(revReverses)
    /\ UNCHANGED <<revReq, revManaged, revReverses, revRun, revPrev>>
    /\ UNCHANGED <<dnsvars, lbvars>>

\* update_reverse: client.post('/ip/<ip>%2F32/reverse', ipReverse, reverse)
RevPost ==
    /\ revPc = "post"
    /\ revCalls' = Append(revCalls, "post")
    /\ revReverses' = {revReq.reverse}
    /\ revPc' = "relist"
    /\ UNCHANGED <<revReq, revManaged, original_reverse, revResult, revRun, revPrev>>
    /\ UNCHANGED <<dnsvars, lbvars>>

\* update_reverse: updated_reverse = get_reverse(client, ip), first call;
\* with None, updated_reverse['reverse'] raises and main() fails.
RevRelist ==
    /\ revPc = "relist"
    /\ revCalls' = Append(revCalls, "list")
    /\ IF revReverses = {}
       THEN RevFinish("fail", FALSE, "fails during update")
       ELSE revPc' = "reitem" /\ UNCHANGED revResult
    /\ UNCHANGED <<revReq, revManaged, revReverses, original_reverse, revRun, revPrev>>
    /\ UNCHANGED <<dnsvars, lbvars>>

\* update_reverse: get_reverse, second call; results['changed'] = True
RevReitem ==
    /\ revPc = "reitem"
    /\ revCalls' = Append(revCalls, "item")
    /\ RevFinish("ok", TRUE, "updated")
    /\ UNCHANGED <<revReq, revManaged, revReverses, original_reverse, revRun, revPrev>>
    /\ UNCHANGED <<dnsvars, lbvars>>

\* client.delete('/ip/<ip>%2F32/reverse/<ipReverse>'); results['changed'] = True
RevDelete ==
    /\ revPc = "delete"
    /\ revCalls' = Append(revCalls, "delete")
    /\ revReverses' = {}
    /\ RevFinish("ok", TRUE, "deleted")
    /\ UNCHANGED <<revReq, revManaged, original_reverse, revRun, revPrev>>
    /\ UNCHANGED <<dnsvars, lbvars>>

\* The same task is invoked again.
RevRerun ==
    /\ revPc = "done"
    /\ revResult.outcome = "ok"
    /\ revRun < MaxRuns
    /\ revRun' = revRun + 1
    /\ revPrev' = revResult
    /\ revPc' = "list"
    /\ original_reverse' = {}
    /\ revCalls' = <<>>
    /\ revResult' = NoResult
    /\ UNCHANGED <<revReq, revManaged, revReverses>>
    /\ UNCHANGED <<dnsvars, lbvars>>

\* The module against a provider that carries out every call.
NextRev ==
    \/ RevList
    \/ RevItem
    \/ RevPost
    \/ RevRelist
    \/ RevReitem
    \/ RevDelete
    \/ RevRerun

SpecRev == InitRev /\ [][NextRev]_vars

\* The module for an ip whose reverses the provider may refuse to read.
SpecRevErr == InitRevErr /\ [][NextRev]_vars

(* ------------------------------------------------------------------ *)
(* Vocabulary of the properties                                        *)
(* ------------------------------------------------------------------ *)

IsMutating(c) == c.op \in {"delete", "create", "refresh"}

\* The mutating calls of this invocation, and their names, in order.
MutatingCalls == SelectSeq(calls, IsMutating)

MutatingOps == [i \in 1..Len(MutatingCalls) |-> MutatingCalls[i].op]

\* The records this invocation has deleted.
DeletedIds ==
    { calls[i].id : i \in { j \in 1..Len(calls) : calls[j].op = "delete" /\ calls[j].ok } }

IsPrefix(a, b) == Len(a) <= Len(b) /\ a = SubSeq(b, 1, Len(a))

\* The records have been read.
Fetched == \E i \in 1..Len(calls) : calls[i].op = "list"

\* The records have been read and main() has decided what to do.
Decided == Fetched /\ pc # "decide"

\* main() is in the middle of its mutating calls.
Calling == pc \in {"delete", "create", "refresh"}

\* A present/append request with the value and the type the module requires.
WellFormed == req.value # None /\ req.type # NoType

\* Every delete call of the invocation comes before its create call.
DeletesFirst ==
    \A i, j \in 1..Len(calls) :
        (calls[i].op = "delete" /\ calls[j].op = "create") => i < j

\* The fetched records that replace matches, as re.match does.
ReplaceMatches ==
    { id \in DOMAIN records : ReMatch(req.replace, records[id].target) }

(* ------------------------------------------------------------------ *)
(* C1                                                                  *)
(* ------------------------------------------------------------------ *)

\* C1 as stated: a present request run again after a run that reported
\* changed=true reports changed=false and issues no delete, create or
\* refresh call, for every request (check mode included).
C1_Original ==
    (run > 1 /\ req.state = "present" /\ prev.outcome = "ok" /\ prev.changed)
        => /\ MutatingCalls = <<>>
           /\ ~Calling
           /\ pc = "done" => (result.outcome = "ok" /\ ~result.changed)

\* C1, amended: outside check mode, a present request run again after a
\* run that reported changed=true reports changed=false and issues no
\* delete, create or refresh call.
C1_Idempotent ==
    (run > 1 /\ req.state = "present" /\ ~req.check
        /\ prev.outcome = "ok" /\ prev.changed)
        => /\ MutatingCalls = <<>>
           /\ ~Calling
           /\ pc = "done" => (result.outcome = "ok" /\ ~result.changed)

C1_Witness ==
    /\ run > 1 /\ req.state = "present" /\ ~req.check
    /\ prev.outcome = "ok" /\ prev.changed
    /\ pc = "done" /\ result.outcome = "ok" /\ ~result.changed
    /\ Truthy(req.replace)

(* ------------------------------------------------------------------ *)
(* C2                                                                  *)
(* ------------------------------------------------------------------ *)

\* C2 as stated: absent with name "*", no removes and no value ends in a
\* rejection (fail_json, or an exception) and issues no delete call, for
\* any non-empty zone.
C2_Original ==
    (req.state = "absent" /\ req.name = <<"*">> /\ ~Truthy(req.removes)
        /\ ~Truthy(req.value) /\ req.domain \in Domains
        /\ DOMAIN zone0 # {} /\ pc = "done")
        => /\ result.outcome \in {"fail", "crash"}
           /\ DeletedIds = {}

\* C2, amended: absent with the empty name (the module's wildcard) and no
\* removes pattern always ends in the rejection 'wildcard delete not
\* allowed' and issues no mutating call, whatever the value and the zone.
C2_EmptyNameRejected ==
    (req.state = "absent" /\ Len(req.name) = 0 /\ ~Truthy(req.removes)
        /\ req.domain \in Domains)
        => /\ MutatingCalls = <<>>
           /\ ~Calling
           /\ zone = zone0
           /\ pc = "done" => /\ result.outcome = "fail"
                             /\ result.msg = "wildcard delete not allowed"

C2_Witness ==
    /\ req.state = "absent" /\ req.name = <<>> /\ ~Truthy(req.removes)
    /\ provider = "emptyall" /\ Cardinality(DOMAIN records) >= 2
    /\ pc = "done" /\ result.outcome = "fail"

(* ------------------------------------------------------------------ *)
(* C3                                                                  *)
(* ------------------------------------------------------------------ *)

\* The types of which a name holds one record.
SingletonTypes == {"A", "AAAA", "CNAME"}

C4_Original ==
    (req.state = "present" /\ Truthy(req.replace) /\ WellFormed /\ Fetched
        /\ pc = "done")
        => /\ DeletedIds = ReplaceMatches
           /\ \A id \in DOMAIN records \ ReplaceMatches :
                id \in DOMAIN zone /\ zone[id] = records[id]

\* C4, amended: present with replace set deletes only candidates that
\* replace matches, and every other candidate is still in the zone,
\* unchanged, at every point of the invocation; when the invocation ends
\* with changed=true outside check mode, the records deleted are exactly the
\* candidates that replace matches.
C4_ReplaceFrame ==
    (req.state = "present" /\ Truthy(req.replace) /\ WellFormed /\ Fetched)
        => /\ DeletedIds \subseteq ReplaceMatches
           /\ \A id \in DOMAIN records \ ReplaceMatches :
                id \in DOMAIN zone /\ zone[id] = records[id]
           /\ (pc = "done" /\ result.changed /\ ~req.check)
                => DeletedIds = ReplaceMatches

C4_Witness ==
    /\ req.state = "present" /\ Truthy(req.replace) /\ ~req.check
    /\ pc = "done" /\ result.changed
    /\ DeletedIds # {}
    /\ DOMAIN records \ ReplaceMatches # {}

(* ------------------------------------------------------------------ *)
(* C5                                                                  *)
(* ------------------------------------------------------------------ *)

\* The fetched records that the name pattern and the value pattern match.
Selected ==
    { id \in DOMAIN records :
        /\ ReMatch(NameRe(req), records[id].subDomain)
        /\ ReMatch(ValueRe(req), records[id].target) }

\* Nothing is selected for deletion: nothing was fetched, or the filter
\* left nothing.
NothingSelected ==
    \/ DOMAIN records = {}
    \/ ReValid(NameRe(req)) /\ ReValid(ValueRe(req)) /\ Selected = {}

\* C5 as stated: absent with nothing selected for deletion always ends
\* successfully with changed=false and no mutating call, never in an error.
C5_Original ==
    (req.state = "absent" /\ Fetched /\ pc = "done" /\ NothingSelected)
        => /\ result.outcome = "ok" /\ ~result.changed
           /\ MutatingCalls = <<>>

\* C5, amended: absent with nothing selected for deletion ends successfully
\* with changed=false and no mutating call, unless the request is the
\* wildcard delete (empty name, no removes) that the module refuses first.
C5_EmptySelectionNoOp ==
    (req.state = "absent" /\ Decided /\ NothingSelected
        /\ ~(Len(req.name) = 0 /\ ~Truthy(req.removes)))
        => /\ pc = "done"
           /\ result.outcome = "ok" /\ ~result.changed
           /\ MutatingCalls = <<>>

C5_Witness ==
    /\ req.state = "absent" /\ pc = "done"
    /\ DOMAIN records # {} /\ Truthy(req.value) /\ NothingSelected
    /\ result.outcome = "ok" /\ ~result.changed

(* ------------------------------------------------------------------ *)
(* C6                                                                  *)
(* ------------------------------------------------------------------ *)

\* C6 as stated, the name half in the absent path: with no removes pattern,
\* a record whose subDomain is not the name as written is never selected.
C6_Original ==
    (req.state = "absent" /\ ~Truthy(req.removes))
        => \A id \in oldrecords : records[id].subDomain = req.name

\* C6, amended: matching ignores case on the target in every intent
\* (present and append are a no-op when a fetched record has the desired
\* target up to letter case, and the desired ttl), and in the absent path it
\* ignores case on the name as well: a fetched record whose subDomain is the
\* name up to letter case, and whose target the value matches, is selected.
C6_CaseInsensitive ==
    /\ (req.state \in {"present", "append"} /\ WellFormed /\ Decided
          /\ \E id \in DOMAIN records :
                /\ Lower(records[id].target) = Lower(req.value)
                /\ records[id].ttl = req.ttl)
         => /\ pc = "done" /\ result.outcome = "ok" /\ ~result.changed
            /\ MutatingCalls = <<>>
    /\ (req.state = "absent" /\ ~Truthy(req.removes) /\ Decided
          /\ result.outcome \notin {"fail", "crash"})
         => \A id \in DOMAIN records :
                (/\ Lower(records[id].subDomain) = Lower(req.name)
                 /\ ReMatch(ValueRe(req), records[id].target))
                    => id \in oldrecords

C6_Witness ==
    /\ req.state = "absent" /\ ~Truthy(req.removes) /\ ~req.check
    /\ pc = "done" /\ result.changed
    /\ \E id \in oldrecords :
        /\ records[id].subDomain # req.name
        /\ id \notin DOMAIN zone

(* ------------------------------------------------------------------ *)
(* C7                                                                  *)
(* ------------------------------------------------------------------ *)

\* C7: present outside check mode, nothing fetched for the name and type:
\* the mutating calls are one create followed by one refresh, no delete, and
\* the invocation reports changed=true.
C7_CreateWhenAbsent ==
    (req.state = "present" /\ ~req.check /\ WellFormed /\ Decided
        /\ DOMAIN records = {})
        => /\ IsPrefix(MutatingOps, <<"create", "refresh">>)
           /\ pc = "done" => /\ MutatingOps = <<"create", "refresh">>
                             /\ result.outcome = "ok" /\ result.changed

C7_Witness ==
    /\ req.state = "present" /\ ~req.check /\ DOMAIN records = {}
    /\ pc = "done" /\ MutatingOps = <<"create", "refresh">>
    /\ result.changed

(* ------------------------------------------------------------------ *)
(* C8                                                                  *)
(* ------------------------------------------------------------------ *)

\* C8: in check mode no mutating call is issued on any path, and the zone
\* is as it was when the invocation started.
C8_CheckModeFrame ==
    req.check => /\ MutatingCalls = <<>>
                 /\ ~Calling
                 /\ zone = zone0

C8_Witness ==
    /\ req.check /\ pc = "done" /\ result.changed
    /\ oldrecords # {} /\ req.state = "present"

(* ------------------------------------------------------------------ *)
(* C9, C10                                                             *)
(* ------------------------------------------------------------------ *)

\* C9: present without the create flag: every delete call comes before the
\* create call, and the zone never holds the new record together with a
\* record being replaced.
C9_DeleteThenCreate ==
    (req.state = "present" /\ ~req.create)
        => /\ DeletesFirst
           /\ newId \in DOMAIN zone => oldrecords \cap DOMAIN zone = {}

C9_Witness ==
    /\ req.state = "present" /\ ~req.create /\ ~req.check
    /\ Cardinality(oldrecords) >= 2 /\ newId \in DOMAIN zone
    /\ pc = "refresh"

\* C10 as stated: present with replace and the create flag: the create call
\* comes before the delete calls.
C10_Original ==
    (req.state = "present" /\ req.create /\ Truthy(req.replace))
        => \A i, j \in 1..Len(calls) :
              (calls[i].op = "create" /\ calls[j].op = "delete") => i < j

\* C10, amended: present with the create flag: the order is the same as
\* without it, every delete call comes before the create call, and the zone
\* never holds the new record together with a record being replaced.
C10_CreateFlagSameOrder ==
    (req.state = "present" /\ req.create)
        => /\ DeletesFirst
           /\ newId \in DOMAIN zone => oldrecords \cap DOMAIN zone = {}

C10_Witness ==
    /\ req.state = "present" /\ req.create /\ Truthy(req.replace)
    /\ ~req.check /\ oldrecords # {} /\ newId \in DOMAIN zone
    /\ pc = "done"

(* ------------------------------------------------------------------ *)
(* C11                                                                 *)
(* ------------------------------------------------------------------ *)

\* The invocation has issued a record delete or a record create.
HasRecordCall ==
    \E i \in 1..Len(MutatingOps) : MutatingOps[i] \in {"delete", "create"}

\* C11: a zone refresh is only ever the last mutating call and follows a
\* record delete or create (so there is at most one, also after n deletes),
\* and an invocation that has issued a delete or a create ends with the
\* refresh; an invocation with no delete and no create issues no refresh.
C11_OneRefreshLast ==
    /\ \A i \in 1..Len(MutatingOps) :
          MutatingOps[i] = "refresh"
              => /\ i = Len(MutatingOps)
                 /\ \E j \in 1..(i - 1) : MutatingOps[j] \in {"delete", "create"}
    /\ (pc = "done" /\ HasRecordCall)
          => MutatingOps[Len(MutatingOps)] = "refresh"

C11_Witness ==
    /\ req.state = "absent" /\ pc = "done" /\ result.changed
    /\ Cardinality(DeletedIds) >= 2
    /\ Cardinality({ i \in 1..Len(calls) : calls[i].op = "refresh" }) = 1
    /\ calls[Len(calls)].op = "refresh"

(* ------------------------------------------------------------------ *)
(* C12                                                                 *)
(* ------------------------------------------------------------------ *)

\* Some fetched record has the desired target (up to letter case) and ttl.
SameRecordFetched ==
    \E id \in DOMAIN records :
        /\ Lower(records[id].target) = Lower(req.value)
        /\ records[id].ttl = req.ttl

NoDeleteCall == \A i \in 1..Len(calls) : calls[i].op # "delete"

\* C12 as stated: append never issues a delete call; it is a no-op when
\* some candidate has the desired target and ttl, and otherwise issues
\* exactly one create (check mode included).
C12_Original ==
    (req.state = "append" /\ WellFormed /\ Decided)
        => /\ NoDeleteCall /\ pc # "delete"
           /\ pc = "done"
                => IF SameRecordFetched
                   THEN MutatingCalls = <<>> /\ ~result.changed
                   ELSE Cardinality({ i \in 1..Len(calls) : calls[i].op = "create" }) = 1

\* C12, amended: append never issues a delete call, whatever the candidates
\* and whatever replace and create are; outside check mode it is a no-op
\* when some candidate has the desired target (up to letter case) and ttl,
\* and otherwise issues exactly one create, then the refresh; in check mode
\* it issues no call.
C12_AppendNeverDeletes ==
    (req.state = "append" /\ WellFormed /\ Decided)
        => /\ NoDeleteCall /\ pc # "delete"
           /\ zone0 = [id \in DOMAIN zone0 |-> zone[id]]
           /\ req.check => MutatingCalls = <<>>
           /\ (pc = "done" /\ ~req.check)
                => IF SameRecordFetched
                   THEN MutatingCalls = <<>> /\ ~result.changed
                   ELSE MutatingOps = <<"create", "refresh">> /\ result.changed

C12_Witness ==
    /\ req.state = "append" /\ ~req.check /\ Truthy(req.replace)
    /\ ReplaceMatches # {} /\ Cardinality(DOMAIN records) >= 2
    /\ pc = "done" /\ MutatingOps = <<"create", "refresh">>

(* ------------------------------------------------------------------ *)
(* C13                                                                 *)
(* ------------------------------------------------------------------ *)

\* The NS records among the records this invocation has deleted.
DeletedNS == { id \in DeletedIds : zone0[id].fieldType = "NS" }

\* C13 as stated: an absent request that selects by wildcard or pattern
\* and does not name type NS never deletes a record of type NS.
C13_Original ==
    (req.state = "absent" /\ req.type # "NS"
        /\ (req.name = <<"*">> \/ Truthy(req.removes)))
        => DeletedNS = {}

\* C13, amended: an absent request that names a type deletes only records
\* of that type, so with a type other than NS no NS record is deleted; a
\* request that names no type deletes the NS records its name and value
\* patterns select like any other record.
C13_TypeFilterProtects ==
    /\ (req.state = "absent" /\ req.type # NoType)
            => \A id \in DeletedIds : zone0[id].fieldType = req.type
    /\ (req.state = "absent" /\ req.type = NoType /\ ~req.check
            /\ Decided /\ pc = "done" /\ result.outcome = "ok")
            => DeletedIds = (IF DOMAIN records = {} THEN {} ELSE Selected)

C13_Witness ==
    /\ req.state = "absent" /\ req.type = "A" /\ Truthy(req.removes)
    /\ pc = "done" /\ DeletedIds # {}
    /\ \E id \in DOMAIN zone :
          /\ zone[id].fieldType = "NS"
          /\ ReMatch(req.removes, zone[id].subDomain)

(* ------------------------------------------------------------------ *)
(* C16                                                                 *)
(* ------------------------------------------------------------------ *)

\* C16: present with replace and create=true, outside check mode, when no
\* record read matches replace (and none is already as requested): the
\* invocation ends with exactly one create call and changed=true, also
\* when other records exist for the name and type.
C16_CreateWhenNoMatch ==
    (req.state = "present" /\ WellFormed /\ ~req.check
        /\ Truthy(req.replace) /\ ReValid(req.replace) /\ req.create
        /\ Decided /\ pc = "done"
        /\ ReplaceMatches = {} /\ ~SameRecordFetched)
        => /\ result.outcome = "ok" /\ result.changed
           /\ Cardinality({ i \in 1..Len(calls) : calls[i].op = "create" }) = 1

(* ------------------------------------------------------------------ *)
(* C17                                                                 *)
(* ------------------------------------------------------------------ *)

\* C17: when the requested domain is not in the provider's zone list, the
\* invocation fails right after reading the zone list: it reads no record
\* and issues no delete, create or refresh call, whatever the request.
C17_UnknownDomainFails ==
    (req.domain \notin Domains /\ pc # "start")
        => /\ pc = "done" /\ result.outcome = "fail"
           /\ ~result.changed
           /\ ~Fetched /\ MutatingCalls = <<>>
           /\ zone = zone0

C17_Witness ==
    /\ req.domain \notin Domains /\ req.state = "absent"
    /\ DOMAIN zone # {}
    /\ pc = "done" /\ result.outcome = "fail"
    /\ Len(calls) = 1 /\ calls[1].op = "zones"

(* ------------------------------------------------------------------ *)
(* C19                                                                 *)
(* ------------------------------------------------------------------ *)

\* The invocation ended successfully without a change and without a call
\* that changes the zone.
NoOp ==
    /\ pc = "done" /\ result.outcome = "ok" /\ ~result.changed
    /\ MutatingCalls = <<>>

\* A request without ttl reaches main() with ttl = 3600, the default of the
\* parameter: it is the request with ttl = DefaultTtl.
TtlUnspecified == req.ttl = DefaultTtl

\* C19 as stated (already for requests without replace): present is a
\* no-op exactly when some candidate has the desired target, letter case
\* aside, and, only when a ttl was specified, the desired ttl.
C19_Original ==
    (req.state = "present" /\ WellFormed /\ ~req.check /\ ~Truthy(req.replace)
        /\ Decided /\ pc = "done")
        => (NoOp <=> \E id \in DOMAIN records :
                        /\ Lower(records[id].target) = Lower(req.value)
                        /\ ~TtlUnspecified => records[id].ttl = req.ttl)

\* C19, amended: present is a no-op when some candidate has the desired
\* target, letter case aside, and the desired ttl, which is 3600 when none
\* was specified; a candidate with the desired target and another ttl is
\* replaced.  The only other no-op is the request with create=true whose
\* replace matches none of the records read.
C19_NoOpOnTargetAndTtl ==
    (req.state = "present" /\ WellFormed /\ ~req.check
        /\ (Truthy(req.replace) => ReValid(req.replace))
        /\ Decided /\ pc = "done")
        => (NoOp <=> \/ SameRecordFetched
                     \/ /\ DOMAIN records # {} /\ Truthy(req.replace)
                        /\ ReplaceMatches = {} /\ req.create)

C19_Witness ==
    /\ req.state = "present" /\ ~req.check /\ TtlUnspecified
    /\ ~Truthy(req.replace)
    /\ \E id \in DOMAIN records :
          /\ Lower(records[id].target) = Lower(req.value)
          /\ records[id].ttl = OtherTtl
    /\ ~SameRecordFetched
    /\ pc = "done" /\ result.changed
    /\ MutatingOps[Len(MutatingOps) - 1] = "create"

(* ------------------------------------------------------------------ *)
(* C20                                                                 *)
(* ------------------------------------------------------------------ *)

\* C20: absent with a value and no removes deletes only records whose
\* target equals the value, letter case aside; a record whose target merely
\* begins with the value is not deleted.
C20_DeletesEqualTargetsOnly ==
    (req.state = "absent" /\ Truthy(req.value) /\ ~Truthy(req.removes))
        => \A id \in DeletedIds : Lower(zone0[id].target) = Lower(req.value)

(* ------------------------------------------------------------------ *)
(* C14                                                                 *)
(* ------------------------------------------------------------------ *)

\* The calls of ovh_ip_loadbalancing_backend that change a backend.
IsLbMutating(c) == c.op \in {"delete", "create", "setWeight", "setProbe"}

\* A poll of waitForNoTask that reported no pending task.
IsQuietPoll(c) == c.op = "poll" /\ c.n = 0

LbMutatingAt == { i \in 1..Len(lbCalls) : IsLbMutating(lbCalls[i]) }

\* C14: every mutating call on a backend (delete, create, setWeight, probe
\* update) comes after a waitForNoTask that returned on an empty task list,
\* with no other mutating call in between, and is followed at once by a
\* waitForNoTask, which has returned on an empty task list before the next
\* mutating call and before the module exits.
C14_BarrierAroundMutations ==
    \A i \in LbMutatingAt :
        /\ \E j \in 1..(i - 1) :
              /\ IsQuietPoll(lbCalls[j])
              /\ \A k \in (j + 1)..(i - 1) : k \notin LbMutatingAt
        /\ IF i = Len(lbCalls)
           THEN lbPc = "wait"
           ELSE lbCalls[i + 1].op = "poll"
        /\ (lbPc = "done" \/ \E k \in LbMutatingAt : k > i)
              => \E j \in (i + 1)..Len(lbCalls) :
                    /\ IsQuietPoll(lbCalls[j])
                    /\ \A k \in (i + 1)..j : k \notin LbMutatingAt

C14_Witness ==
    /\ lbReq.state = "present" /\ lbPc = "done" /\ lbResult.changed
    /\ \E i, j \in LbMutatingAt :
          /\ i < j
          /\ lbCalls[i].op = "setWeight" /\ lbCalls[j].op = "setProbe"
          /\ \E k \in (i + 1)..(j - 1) : lbCalls[k].op = "poll" /\ lbCalls[k].n > 0

(* ------------------------------------------------------------------ *)
(* C15                                                                 *)
(* ------------------------------------------------------------------ *)

\* C15: waitForNoTask polls again after every poll that reported a pending
\* task and returns on the first poll that reported none: after k non-empty
\* polls and an empty one it has returned after exactly k+1 polls, and no
\* other call, mutating or not, is issued while it polls.
C15_ReturnsOnFirstEmptyPoll ==
    \A i \in 1..Len(lbCalls) :
        lbCalls[i].op = "poll"
            => IF lbCalls[i].n > 0
               THEN IF i = Len(lbCalls)
                    THEN lbPc = "wait"
                    ELSE lbCalls[i + 1].op = "poll"
               ELSE IF i = Len(lbCalls)
                    THEN lbPc # "wait"
                    ELSE lbCalls[i + 1].op # "poll"

\* Two tasks pending at the first poll, none at the second: the barrier
\* has returned after exactly two polls.
C15_Witness ==
    /\ Len(lbCalls) >= 4
    /\ lbCalls[1].op = "loadBalancers"
    /\ lbCalls[2] = LbCall("poll", 2)
    /\ lbCalls[3] = LbCall("poll", 0)
    /\ lbCalls[4].op = "backends"

(* ------------------------------------------------------------------ *)
(* C18                                                                 *)
(* ------------------------------------------------------------------ *)

\* The mutating calls of ovh_reverse issued so far.
RevMutatingAt == { i \in 1..Len(revCalls) : revCalls[i] \in {"post", "delete"} }

\* C18: present with no reverse given (none, or an empty one) only checks:
\* it issues no mutating call, reports changed=false, succeeds when the ip
\* has a reverse and fails when it has none; absent for an ip without a
\* reverse succeeds with changed=false and issues no delete call.
C18_CheckOnly ==
    /\ (revReq.state = "present" /\ ~Truthy(revReq.reverse))
            => /\ RevMutatingAt = {} /\ revPc \notin {"post", "delete"}
               /\ revPc = "done"
                    => /\ ~revResult.changed
                       /\ revReverses # {} => revResult.outcome = "ok"
                       /\ revReverses = {} => revResult.outcome = "fail"
    /\ (revReq.state = "absent" /\ revReverses = {} /\ RevMutatingAt = {})
            => /\ revPc # "delete"
               /\ revPc = "done" => revResult.outcome = "ok" /\ ~revResult.changed

C18_Witness ==
    /\ revReq.state = "present" /\ revReq.reverse = None
    /\ revReverses = {} /\ revCalls = <<"list">>
    /\ revPc = "done" /\ revResult.outcome = "fail" /\ ~revResult.changed

(* ------------------------------------------------------------------ *)
(* C21                                                                 *)
(* ------------------------------------------------------------------ *)

\* A provider call of this invocation failed.
FailedAt == { i \in 1..Len(calls) : ~calls[i].ok }

\* C21: when a provider call fails after some deletes succeeded, the
\* failed call is the last call of the invocation (nothing compensates, no
\* later delete, create or refresh), the deleted records stay deleted, and
\* the invocation ends as a failure the module reports itself (fail_json
\* with its results), not as an exception nobody caught.
C21_FailureReported ==
    (FailedAt # {} /\ DeletedIds # {})
        => /\ FailedAt = {Len(calls)}
           /\ DeletedIds \cap DOMAIN zone = {}
           /\ pc = "done" /\ result.outcome = "fail"

(* ------------------------------------------------------------------ *)
(* C22                                                                 *)
(* ------------------------------------------------------------------ *)

\* C22: a provider error raised by a poll ends waitForNoTask and the module
\* at once with that error: the failed poll is the last call, so it is not
\* repeated and no mutating call follows it.  A poll is followed by another
\* poll only when it reported a pending task, and after such a poll
\* waitForNoTask always polls again: it never gives up, however many polls
\* it has made.
C22_PollErrorEndsBarrier ==
    /\ \A i \in 1..Len(lbCalls) :
          lbCalls[i].op = "pollError"
              => /\ i = Len(lbCalls)
                 /\ lbPc = "done" /\ lbResult.outcome = "crash"
    /\ \A i \in 1..Len(lbCalls) :
          lbCalls[i].op = "poll"
              => IF lbCalls[i].n > 0
                 THEN IF i = Len(lbCalls)
                      THEN lbPc = "wait"
                      ELSE lbCalls[i + 1].op \in {"poll", "pollError"}
                 ELSE i < Len(lbCalls)
                        => lbCalls[i + 1].op \notin {"poll", "pollError"}

C22_Witness ==
    /\ lbPc = "done" /\ lbResult.outcome = "crash"
    /\ Len(lbCalls) >= 3
    /\ lbCalls[Len(lbCalls)].op = "pollError"
    /\ lbCalls[Len(lbCalls) - 1].op = "poll" /\ lbCalls[Len(lbCalls) - 1].n > 0
    /\ \E i \in 1..Len(lbCalls) : lbCalls[i].op \in {"delete", "create", "setWeight", "setProbe"}

(* ------------------------------------------------------------------ *)
(* C23                                                                 *)
(* ------------------------------------------------------------------ *)

\* The records the zone holds for the requested name and type.
RequestedInZone ==
    { id \in DOMAIN zone :
        zone[id].subDomain = req.name /\ zone[id].fieldType = req.type }

\* C23: present with no replace, not in check mode: whenever the invocation
\* reports changed=true, the zone then holds exactly one record for the
\* requested name and type, with the desired target and ttl, and none of
\* the records the invocation had read.
C23_OneRecordAfterChange ==
    (req.state = "present" /\ WellFormed /\ ~Truthy(req.replace) /\ ~req.check
        /\ pc = "done" /\ result.outcome = "ok" /\ result.changed)
        => /\ Cardinality(RequestedInZone) = 1
           /\ \A id \in RequestedInZone :
                 zone[id].target = req.value /\ zone[id].ttl = req.ttl
           /\ DOMAIN records \cap DOMAIN zone = {}

C23_Witness ==
    /\ req.state = "present" /\ ~Truthy(req.replace) /\ ~req.check
    /\ pc = "done" /\ result.changed
    /\ Cardinality(DOMAIN records) = 2
    /\ Cardinality(RequestedInZone) = 1

(* ------------------------------------------------------------------ *)
(* C24                                                                 *)
(* ------------------------------------------------------------------ *)

\* What main() decides in check mode for the request and the records read:
\* in check mode the decision is the whole invocation.
CheckModeRun == Decision(records, [req EXCEPT !.check = TRUE])

\* C24: an invocation outside check mode that has run to its end, through
\* all its provider calls, reports the outcome (success, failure) and the
\* changed flag that the same request reports in check mode on the same
\* records; on an unknown domain both fail before check mode is looked at.
C24_CheckModeAgrees ==
    /\ (~req.check /\ Decided /\ pc = "done")
            => /\ CheckModeRun.next = "done"
               /\ result.outcome = CheckModeRun.outcome
               /\ result.changed = CheckModeRun.changed
    /\ (pc = "done" /\ ~Fetched) => result.outcome = "fail" /\ ~result.changed

C24_Witness ==
    /\ ~req.check /\ pc = "done" /\ result.changed
    /\ req.state = "present" /\ DeletedIds # {} /\ newId # 0
    /\ CheckModeRun.outcome = "ok" /\ CheckModeRun.changed

(* ------------------------------------------------------------------ *)
(* C25                                                                 *)
(* ------------------------------------------------------------------ *)

\* C25: an invocation of ovh_ip_loadbalancing_backend that follows a
\* completed invocation of the same task issues no mutating call and
\* reports changed=false; absent for a backend the load balancer does not
\* list issues no delete and reports changed=false.
C25_LbIdempotent ==
    /\ (lbRun >= 2 /\ lbPrev.outcome = "ok")
            => /\ LbMutatingAt = {}
               /\ lbPc \notin {"delete", "create", "setWeight", "setProbe"}
               /\ lbPc = "done" => lbResult.outcome = "ok" /\ ~lbResult.changed
    /\ (lbReq.state = "absent" /\ lbReq.backend \notin DOMAIN lbBackends
            /\ LbMutatingAt = {})
            => /\ lbPc # "delete"
               /\ lbPc = "done" => ~lbResult.changed

C25_Witness ==
    /\ lbRun = 2 /\ lbPrev.outcome = "ok" /\ lbPrev.changed
    /\ lbReq.state = "present"
    /\ lbPc = "done" /\ lbResult.outcome = "ok" /\ ~lbResult.changed
    /\ \E i \in 1..Len(lbCalls) : lbCalls[i].op = "properties"
    /\ lbBackends[lbReq.backend] = Props(lbReq.weight, lbReq.probe)

====
